---- MODULE Spec2Model ----
(***************************************************************************)
(* Book Q&A pipeline (Shamas245/book-rag-chatbot).                         *)
(*                                                                         *)
(* The module models, from the Python sources,                             *)
(*   - ConversationManager: _truncate_text, _build_context,                *)
(*     _generate_response (with its tenacity retry policy),                *)
(*     _build_history and generate_answer       (conversation_manager.py)  *)
(*   - PDFDocumentProcessor: _create_text_chunks, _switch_api_key,         *)
(*     generate_embeddings, process_images (as threads sharing the key     *)
(*     pool and its lock), _process_pdf_batch and process_pdf              *)
(*                                              (doc_processor.py)         *)
(*   - the upload flow's embed-then-store step and the session of          *)
(*     uploads, deletions and queries           (main.py, vector_db.py)    *)
(*                                                                         *)
(* Texts are sequences of one-character strings, so that len(), slicing,   *)
(* rsplit() and strip() are computed as Python computes them.  Exception   *)
(* messages are sequences of words, and `"x" in str(e)` is the contiguous  *)
(* sub-sequence test on them.                                              *)
(*                                                                         *)
(* Each component has its own specification over the shared variables:     *)
(* SpecTruncate, SpecContext, SpecChunker, SpecEmbed, SpecAnswer,          *)
(* SpecHistory, SpecImages, SpecThreads (SpecThreadsFair with weak         *)
(* fairness per thread), SpecBatch, SpecPdf and SpecSession.               *)
(***************************************************************************)
EXTENDS Integers, Sequences, FiniteSets, TLC

VARIABLES
    pc,                     \* position of the component under check
    \* ---- _truncate_text
    text,                   \* argument text
    max_length,             \* argument max_length (also of _build_context)
    truncated,              \* value returned by _truncate_text
    \* ---- _build_context
    retrieved_chunks,       \* argument: list of {"text": ...}
    context,                \* value returned by _build_context
    \* ---- _create_text_chunks
    sentences,              \* nltk.sent_tokenize(text): the sentence list
    chunk_size,             \* self.chunk_size
    chunks,                 \* value returned by _create_text_chunks
    \* ---- PDFDocumentProcessor key pool, generate_embeddings, upload flow
    api_keys,               \* self.api_keys
    current_api_key_index,  \* self.current_api_key_index
    current_api_key,        \* self.current_api_key
    configured_key,         \* the key last given to genai.configure
    text_chunks,            \* main: the chunks handed to generate_embeddings
    embed_outcome,          \* what embed_documents did in the last call
    text_chunks_with_embeddings,  \* value returned by generate_embeddings
    vector_store,           \* documents held by the vector store
    uploads,                \* books uploaded so far
    \* ---- generate_answer (with retrieved_chunks and context above)
    question_len,           \* len(question)
    history_len,            \* len(history_text)
    prompt,                 \* the prompt sent to the model, once built
    attempts,               \* the calls of _generate_response made so far
    outcome,                \* how generate_answer ended
    \* ---- _build_history (with max_length above)
    conversation_history,   \* argument: list of {"role": ..., "content": ...}
    history_text,           \* value returned by _build_history
    \* ---- threads of one PDFDocumentProcessor (with the key pool above)
    tpc,                    \* position of each thread
    job,                    \* what each thread was asked to run, with its inputs
    img_i,                  \* process_images: place in image_data, per thread
    image_chunks,           \* process_images: image_chunks, per thread
    attempted,              \* process_images: the images taken up so far, per thread
    err,                    \* the exception a thread has caught last
    _lock,                  \* self._lock: "free" or the thread holding it
    next_index,             \* _switch_api_key: the index a thread has computed
    rotations,              \* the index stores of _switch_api_key made so far
    \* ---- process_pdf and _process_pdf_batch (with chunk_size above)
    doc_pages,              \* fitz.open(pdf_path): the pages of the PDF
    page_batch_size,        \* self.page_batch_size
    max_workers,            \* self.max_workers
    futures,                \* process_pdf: the submitted batches, in order
    collected,              \* process_pdf: the futures whose result was taken
    finish_order,           \* the batches in the order their workers finished
    all_text_chunks,        \* process_pdf: all_text_chunks
    all_image_data,         \* process_pdf: all_image_data
    start_page,             \* _process_pdf_batch: argument
    end_page,               \* _process_pdf_batch: argument
    page_no,                \* _process_pdf_batch: page_num, the page the loop is at
    batch,                  \* _process_pdf_batch: text_buffer, page_refs,
                            \*   text_chunks and image_data
    batch_result,           \* value returned by _process_pdf_batch
    \* ---- the session of main.py (with vector_store and retrieved_chunks above)
    processed_books,        \* st.session_state.processed_books, by book name
    selected_books,         \* selected_books of the last query
    session_ops             \* the uploads, deletions and queries made so far

truncVars == <<text, max_length, truncated>>
ctxVars   == <<retrieved_chunks, context>>
chunkVars == <<sentences, chunk_size, chunks>>
keyVars   == <<api_keys, current_api_key_index, current_api_key, configured_key>>
embedVars == <<text_chunks, embed_outcome, text_chunks_with_embeddings,
               vector_store, uploads>>
answerVars == <<question_len, history_len, prompt, attempts, outcome>>
histVars  == <<conversation_history, history_text>>
procVars  == <<tpc, job, img_i, image_chunks, attempted, err, _lock, next_index,
               rotations>>
pdfVars   == <<doc_pages, page_batch_size, max_workers, futures, collected,
               finish_order, all_text_chunks, all_image_data>>
batchVars == <<start_page, end_page, page_no, batch, batch_result>>
sessVars  == <<processed_books, selected_books, session_ops>>
laterVars == <<histVars, procVars, pdfVars, batchVars, sessVars>>
vars      == <<pc, truncVars, ctxVars, chunkVars, keyVars, embedVars, answerVars,
               laterVars>>

----------------------------------------------------------------------------
(* Bounds of the model.                                                    *)

MaxTextLen  == 5    \* longest text handed to _truncate_text
MaxLimit    == 5    \* largest max_length handed to _truncate_text
MaxChunkLen == 4    \* longest retrieved chunk text
MaxChunks   == 2    \* most retrieved chunks in one _build_context call
MinCtxLimit == 4    \* smallest max_length handed to _build_context
MaxCtxLimit == 7    \* largest max_length handed to _build_context
MaxSentLen  == 5    \* longest sentence handed to the chunker
MaxSents    == 3    \* most sentences in one chunker call
MaxChunkSize == 6   \* largest chunk_size
MaxBatch    == 2    \* most chunks in one generate_embeddings call
MaxUploads  == 2    \* most books uploaded in one session

----------------------------------------------------------------------------
(* Python string primitives on sequences of characters.                    *)

Min(a, b) == IF a <= b THEN a ELSE b
Max(a, b) == IF a >= b THEN a ELSE b

Chars == {"a", "."}

\* all texts over Chars of length lo..hi
TextsBetween(lo, hi) == UNION {[1..k -> Chars] : k \in lo..hi}

\* str.isspace() for one character
IsSpace(c) == c \in {" ", "\n", "\t"}

\* s[:n], for n of either sign (a negative n counts from the end)
SlicePrefix(s, n) ==
    IF n >= 0 THEN SubSeq(s, 1, Min(n, Len(s)))
              ELSE SubSeq(s, 1, Max(Len(s) + n, 0))

\* position of the last occurrence of character c in s, 0 when absent
LastIndexOf(s, c) ==
    LET hits == {i \in 1..Len(s) : s[i] = c}
    IN  IF hits = {} THEN 0 ELSE CHOOSE i \in hits : \A j \in hits : j <= i

\* s.rsplit(".", 1)[0]
RSplitDotHead(s) ==
    LET k == LastIndexOf(s, ".")
    IN  IF k = 0 THEN s ELSE SubSeq(s, 1, k - 1)

\* s.strip()
Strip(s) ==
    LET solid == {i \in 1..Len(s) : ~IsSpace(s[i])}
    IN  IF solid = {} THEN <<>>
        ELSE SubSeq(s, CHOOSE i \in solid : \A j \in solid : i <= j,
                       CHOOSE i \in solid : \A j \in solid : j <= i)

\* `pat in s` for sequences: pat occurs as a contiguous run of s
Contains(s, pat) ==
    \E i \in 1..(Len(s) - Len(pat) + 1) : SubSeq(s, i, i + Len(pat) - 1) = pat

----------------------------------------------------------------------------
(* ConversationManager._truncate_text                                      *)

_truncate_text(t, n) ==
    IF Len(t) <= n THEN t
    ELSE RSplitDotHead(SlicePrefix(t, n)) \o <<".">>

(* ConversationManager._build_context                                      *)

Separator == <<"\n", "\n">>

SeparatorOverhead == 2

RECURSIVE ContextLoop(_, _, _, _)
ContextLoop(cs, i, ctx, n) ==
    IF i > Len(cs) THEN ctx
    ELSE LET chunk_text == cs[i].text
         IN  IF Len(ctx) + Len(chunk_text) + 2 > n
             THEN LET remaining_space == n - Len(ctx) - 2
                  IN  ctx \o Separator \o _truncate_text(chunk_text, remaining_space)
             ELSE ContextLoop(cs, i + 1, ctx \o Separator \o chunk_text, n)

_build_context(cs, n) == Strip(ContextLoop(cs, 1, <<>>, n))

----------------------------------------------------------------------------
(* SpecTruncate: one call of _truncate_text on a drawn text and limit.     *)

TruncIdle == text = <<>> /\ truncated = <<>>
CtxIdle   == retrieved_chunks = <<>> /\ context = <<>>
ChunkIdle == sentences = <<>> /\ chunk_size = 0 /\ chunks = <<>>
KeysIdle  ==
    /\ api_keys = <<"GEMINI_API_KEY_1">>
    /\ current_api_key_index = 0
    /\ current_api_key = "GEMINI_API_KEY_1"
    /\ configured_key = "GEMINI_API_KEY_1"
EmbedIdle ==
    /\ text_chunks = <<>> /\ embed_outcome = [kind |-> "none"]
    /\ text_chunks_with_embeddings = <<>> /\ vector_store = <<>> /\ uploads = 0
AnswerIdle ==
    /\ question_len = 0 /\ history_len = 0 /\ prompt = [built |-> FALSE]
    /\ attempts = <<>> /\ outcome = [kind |-> "none"]
HistIdle  == conversation_history = <<>> /\ history_text = <<>>
ProcIdle  ==
    /\ tpc = <<>> /\ job = <<>> /\ img_i = <<>> /\ image_chunks = <<>>
    /\ attempted = <<>> /\ err = <<>> /\ _lock = "free" /\ next_index = <<>>
    /\ rotations = 0
EmptyBatch ==
    [text_buffer |-> <<>>, page_refs |-> <<>>, text_chunks |-> <<>>,
     image_data |-> <<>>]
NoResult  == [text_chunks |-> <<>>, image_data |-> <<>>]
PdfIdle   ==
    /\ doc_pages = <<>> /\ page_batch_size = 1 /\ max_workers = 1
    /\ futures = <<>> /\ collected = <<>> /\ finish_order = <<>>
    /\ all_text_chunks = <<>> /\ all_image_data = <<>>
BatchIdle ==
    /\ start_page = 0 /\ end_page = 0 /\ page_no = 0 /\ batch = EmptyBatch
    /\ batch_result = NoResult
SessIdle  == processed_books = {} /\ selected_books = <<>> /\ session_ops = 0
LaterIdle == HistIdle /\ ProcIdle /\ PdfIdle /\ BatchIdle /\ SessIdle

InitTruncate ==
    /\ pc = "truncate"
    /\ max_length \in 1..MaxLimit
    /\ text \in TextsBetween(0, MaxTextLen)
    /\ truncated = <<>>
    /\ CtxIdle /\ ChunkIdle /\ KeysIdle /\ EmbedIdle /\ AnswerIdle /\ LaterIdle

TruncateCall ==
    /\ pc = "truncate"
    /\ truncated' = _truncate_text(text, max_length)
    /\ pc' = "truncated"
    /\ UNCHANGED <<text, max_length, ctxVars, chunkVars, keyVars, embedVars, answerVars, laterVars>>

NextTruncate == TruncateCall

SpecTruncate == InitTruncate /\ [][NextTruncate]_vars

----------------------------------------------------------------------------
(* SpecContext: one call of _build_context on a drawn list of chunks.      *)

RetrievedChunk(t) == [text |-> t]

ChunkLists ==
    UNION {[1..k -> {RetrievedChunk(t) : t \in TextsBetween(1, MaxChunkLen)}]
           : k \in 0..MaxChunks}

InitContext ==
    /\ pc = "build_context"
    /\ max_length \in MinCtxLimit..MaxCtxLimit
    /\ retrieved_chunks \in ChunkLists
    /\ context = <<>>
    /\ TruncIdle /\ ChunkIdle /\ KeysIdle /\ EmbedIdle /\ AnswerIdle /\ LaterIdle

BuildContextCall ==
    /\ pc = "build_context"
    /\ context' = _build_context(retrieved_chunks, max_length)
    /\ pc' = "context_built"
    /\ UNCHANGED <<retrieved_chunks, truncVars, chunkVars, keyVars, embedVars, answerVars, laterVars>>

NextContext == BuildContextCall

SpecContext == InitContext /\ [][NextContext]_vars

----------------------------------------------------------------------------
(* PDFDocumentProcessor._create_text_chunks                                *)
(* The argument is the sentence list nltk.sent_tokenize returns: non-empty *)
(* sentences without leading or trailing whitespace.                       *)

\* line 144: the sentence still fits the chunk under construction
SentenceFitsIgnoringCurrent(current_chunk, sentence, size) ==
    Len(sentence) + 1 <= size

SentenceFits(current_chunk, sentence, size) ==
    Len(current_chunk) + Len(sentence) + 1 <= size

\* line 152: the chunk a sentence that does not fit starts
StartChunkEmpty(sentence) == <<>>

StartChunk(sentence) == sentence \o <<" ">>

\* lines 148-151 and 155-158: one chunk dictionary
MakeChunk(current_chunk, source, pages, chunk_type) ==
    [text |-> Strip(current_chunk),
     metadata |-> [source |-> source, pages |-> pages, type |-> chunk_type]]

\* lines 147 and 154: append the chunk under construction unless it is blank
Flush(out, current_chunk, source, pages, chunk_type) ==
    IF Strip(current_chunk) # <<>>
    THEN Append(out, MakeChunk(current_chunk, source, pages, chunk_type))
    ELSE out

RECURSIVE ChunkLoop(_, _, _, _, _, _, _, _)
ChunkLoop(sents, i, current_chunk, out, size, source, pages, chunk_type) ==
    IF i > Len(sents)
    THEN Flush(out, current_chunk, source, pages, chunk_type)
    ELSE IF SentenceFits(current_chunk, sents[i], size)
         THEN ChunkLoop(sents, i + 1, current_chunk \o sents[i] \o <<" ">>,
                        out, size, source, pages, chunk_type)
         ELSE ChunkLoop(sents, i + 1, StartChunk(sents[i]),
                        Flush(out, current_chunk, source, pages, chunk_type),
                        size, source, pages, chunk_type)

_create_text_chunks(sents, size, source, pages, chunk_type) ==
    ChunkLoop(sents, 1, <<>>, <<>>, size, source, pages, chunk_type)

----------------------------------------------------------------------------
(* SpecChunker: one call of _create_text_chunks on a drawn sentence list.  *)

Repeat(c, k) == [i \in 1..k |-> c]

SentencePool ==
    {Repeat("a", k) : k \in 1..MaxSentLen}
        \cup {Repeat("b", k) : k \in 1..MaxSentLen}
        \cup {<<"a", " ", "b">>}

SentenceLists == UNION {[1..k -> SentencePool] : k \in 0..MaxSents}

InitChunker ==
    /\ pc = "chunk"
    /\ sentences \in SentenceLists
    /\ chunk_size \in 0..MaxChunkSize
    /\ chunks = <<>>
    /\ max_length = 0 /\ TruncIdle /\ CtxIdle /\ KeysIdle /\ EmbedIdle /\ AnswerIdle /\ LaterIdle

CreateTextChunksCall ==
    /\ pc = "chunk"
    /\ chunks' = _create_text_chunks(sentences, chunk_size, "book.pdf", <<1>>, "text")
    /\ pc' = "chunked"
    /\ UNCHANGED <<sentences, chunk_size, truncVars, ctxVars, keyVars, embedVars, answerVars, laterVars>>

NextChunker == CreateTextChunksCall

SpecChunker == InitChunker /\ [][NextChunker]_vars

----------------------------------------------------------------------------
(* PDFDocumentProcessor.__init__: the key pool.                            *)
(* api_keys is [api_key] when the UI gave a key, else the keys among       *)
(* GEMINI_API_KEY_1, GEMINI_API_KEY_2 that are set; an empty pool raises.  *)

KeyPools ==
    { <<"UI_KEY">>,
      <<"GEMINI_API_KEY_1">>,
      <<"GEMINI_API_KEY_2">>,
      <<"GEMINI_API_KEY_1", "GEMINI_API_KEY_2">> }

\* Python list index i (0-based) of a sequence
At(seq, i) == seq[i + 1]

(* PDFDocumentProcessor._switch_api_key                                    *)

\* line 202
NextKeyIndex(i, n) == (i + 1) % n

\* lines 202-204
_switch_api_key ==
    LET i == NextKeyIndex(current_api_key_index, Len(api_keys))
    IN  /\ current_api_key_index' = i
        /\ current_api_key' = At(api_keys, i)
        /\ configured_key' = At(api_keys, i)
        /\ UNCHANGED api_keys

(* The embedding provider: embed_documents(texts) returns one vector per   *)
(* text, in order, or raises.  An exception is its class (as the except    *)
(* clauses see it) and the words of str(e).                                *)

EmbeddingOf(t) == <<"vector", t>>

EmbedErrors ==
    { [kind |-> "quota",      class |-> "GoogleAPIError",
       msg |-> <<"429", "Quota", "exceeded", "for", "metric">>],
      [kind |-> "network",    class |-> "GoogleAPIError",
       msg |-> <<"503", "Service", "Unavailable">>],
      [kind |-> "network",    class |-> "GoogleAPIError",
       msg |-> <<"504", "Timeout", "of", "60s", "exceeded">>],
      [kind |-> "api",        class |-> "GoogleAPIError",
       msg |-> <<"400", "API", "key", "not", "valid">>],
      [kind |-> "unexpected", class |-> "Exception",
       msg |-> <<"Connection", "reset", "by", "peer">>] }

EmbedOutcomes == {[kind |-> "ok"]} \cup EmbedErrors

(* PDFDocumentProcessor.generate_embeddings                                *)

\* lines 212-213: chunk["embedding"] = embedding, for every zipped pair
AttachEmbeddings(cs) ==
    [i \in 1..Len(cs) |->
        [text |-> cs[i].text, metadata |-> cs[i].metadata,
         embedding |-> EmbeddingOf(cs[i].text)]]

\* lines 216-217: the error that switches the key
IsAnyApiError(e) == e.class = "GoogleAPIError"

IsQuotaExceeded(e) ==
    e.class = "GoogleAPIError" /\ Contains(e.msg, <<"Quota", "exceeded">>)

\* lines 220, 223, 226, 229: what a failed call returns
ReturnInputOnFailure(cs) == cs

ReturnOnFailure(cs) == <<>>

HasEmbedding(c) == "embedding" \in DOMAIN c

----------------------------------------------------------------------------
(* SpecEmbed: a session in which books are uploaded; the chunks of each    *)
(* are embedded and, when the call returns a non-empty list, stored        *)
(* (main.py lines 158-167).                                                *)

BookNames == {"A.pdf", "B.pdf"}

FreshChunk(t, book) ==
    [text |-> t, metadata |-> [source |-> book, pages |-> <<1>>, type |-> "text"]]

FreshChunkLists(book) ==
    UNION {[1..k -> {FreshChunk(t, book) : t \in {<<"a">>, <<"b">>}}]
           : k \in 0..MaxBatch}

InitEmbed ==
    /\ pc = "upload"
    /\ api_keys \in KeyPools
    /\ current_api_key_index = 0
    /\ current_api_key = At(api_keys, 0)
    /\ configured_key = At(api_keys, 0)
    /\ EmbedIdle
    /\ max_length = 0 /\ TruncIdle /\ CtxIdle /\ ChunkIdle /\ AnswerIdle /\ LaterIdle

\* main.py lines 158-162: process_pdf gave the chunks, source := book_name
UploadBook ==
    /\ pc = "upload"
    /\ uploads < MaxUploads
    /\ \E book \in BookNames : text_chunks' \in FreshChunkLists(book)
    /\ uploads' = uploads + 1
    /\ embed_outcome' = [kind |-> "none"]
    /\ text_chunks_with_embeddings' = <<>>
    /\ pc' = "embed"
    /\ UNCHANGED <<vector_store, keyVars, truncVars, ctxVars, chunkVars, answerVars, laterVars>>

\* doc_processor.py lines 207-229, with the _switch_api_key it calls
generate_embeddings ==
    /\ pc = "embed"
    /\ \E o \in EmbedOutcomes :
          /\ embed_outcome' = o
          /\ IF o.kind = "ok"
             THEN /\ text_chunks' = AttachEmbeddings(text_chunks)
                  /\ text_chunks_with_embeddings' = AttachEmbeddings(text_chunks)
                  /\ UNCHANGED keyVars
             ELSE /\ text_chunks_with_embeddings' = ReturnOnFailure(text_chunks)
                  /\ UNCHANGED text_chunks
                  /\ IF IsQuotaExceeded(o)
                     THEN _switch_api_key
                     ELSE UNCHANGED keyVars
    /\ pc' = "embedded"
    /\ UNCHANGED <<vector_store, uploads, truncVars, ctxVars, chunkVars, answerVars, laterVars>>

\* main.py lines 164-166: an empty result is reported and the book skipped
SkipFailedBook ==
    /\ pc = "embedded"
    /\ text_chunks_with_embeddings = <<>>
    /\ pc' = "upload"
    /\ UNCHANGED <<embedVars, keyVars, truncVars, ctxVars, chunkVars, answerVars, laterVars>>

\* main.py line 167 and vector_db.py lines 42-60; chunk["embedding"] of a
\* chunk without one raises KeyError, which main.py line 169 reports
store_in_vector_db ==
    /\ pc = "embedded"
    /\ text_chunks_with_embeddings # <<>>
    /\ IF \A i \in 1..Len(text_chunks_with_embeddings) :
             HasEmbedding(text_chunks_with_embeddings[i])
       THEN vector_store' = vector_store \o
                [i \in 1..Len(text_chunks_with_embeddings) |->
                    [page_content |-> text_chunks_with_embeddings[i].text,
                     metadata |-> text_chunks_with_embeddings[i].metadata,
                     embedding |-> text_chunks_with_embeddings[i].embedding]]
       ELSE UNCHANGED vector_store
    /\ pc' = "upload"
    /\ UNCHANGED <<text_chunks, embed_outcome, text_chunks_with_embeddings,
                   uploads, keyVars, truncVars, ctxVars, chunkVars, answerVars, laterVars>>

NextEmbed ==
    \/ UploadBook
    \/ generate_embeddings
    \/ SkipFailedBook
    \/ store_in_vector_db

SpecEmbed == InitEmbed /\ [][NextEmbed]_vars

----------------------------------------------------------------------------
(* ConversationManager._generate_response and generate_answer              *)
(*                                                                         *)
(* One call of gemini_model.generate_content either returns a response     *)
(* with some text (possibly empty or blank) or raises.  A text is a        *)
(* sequence of words and blanks; an exception is its class and the words   *)
(* of str(e).                                                              *)

MAX_TOKENS == 4000
StopAfterAttempt == 3
ContextLimit == 2000
DegradedContextLimit == 1000
PromptTemplateLen == 898

NotAvailableMsg == <<"The answer is not available in the provided books.">>
NoAnswerMsg ==
    <<"No answer generated from the provided context. The API returned an empty response.">>
QuotaMsg == <<"API quota exceeded. Please try again later or upgrade your plan.">>
FailedPrefix == <<"Failed", "to", "generate", "answer:">>

ModelBehaviours ==
    { [kind |-> "text",  text |-> <<"Answer", " ", "one">>],
      [kind |-> "text",  text |-> <<" ", "Answer", " ", "two", "\n">>],
      [kind |-> "text",  text |-> <<>>],
      [kind |-> "text",  text |-> <<" ", "\n">>],
      [kind |-> "raise", exc |-> [class |-> "ResourceExhausted",
                                  msg |-> <<"429", "Resource", "has", "been",
                                            "exhausted">>]],
      [kind |-> "raise", exc |-> [class |-> "ServiceUnavailable",
                                  msg |-> <<"503", "Service", "Unavailable">>]],
      [kind |-> "raise", exc |-> [class |-> "DeadlineExceeded",
                                  msg |-> <<"504", "Deadline", "Exceeded">>]] }

\* str.lower() on the words that occur in exception messages
LowerWord(w) ==
    CASE w = "Quota"              -> "quota"
      [] w = "Resource"           -> "resource"
      [] w = "Service"            -> "service"
      [] w = "Unavailable"        -> "unavailable"
      [] w = "Please"             -> "please"
      [] w = "Empty"              -> "empty"
      [] w = "Gemini"             -> "gemini"
      [] w = "API."               -> "api."
      [] w = "RetryError[<Future" -> "retryerror[<future"
      [] w = "ValueError>]"       -> "valueerror>]"
      [] w = "Exception>]"        -> "exception>]"
      [] w = "ServiceUnavailable>]" -> "serviceunavailable>]"
      [] w = "ResourceExhausted>]"  -> "resourceexhausted>]"
      [] w = "DeadlineExceeded>]" -> "deadlineexceeded>]"
      [] w = "Deadline"           -> "deadline"
      [] w = "Exceeded"           -> "exceeded"
      [] OTHER                    -> w

Lower(s) == [i \in 1..Len(s) |-> LowerWord(s[i])]

EmptyResponseError ==
    [class |-> "ValueError",
     msg |-> <<"Empty", "response", "from", "Gemini", "API.">>]

QuotaExceededError ==
    [class |-> "Exception",
     msg |-> <<"Quota", "exceeded.", "Please", "try", "again", "later", "or",
               "upgrade", "your", "plan.">>]

\* lines 61-72: one attempt.  The ValueError of line 66 is raised inside
\* the try, so the except clause of line 68 sees it too.
_generate_response(b) ==
    LET response_text == IF b.kind = "text" /\ b.text # <<>>
                         THEN Strip(b.text) ELSE <<>>
        e == IF b.kind = "raise" THEN b.exc ELSE EmptyResponseError
    IN  IF b.kind = "text" /\ response_text # <<>>
        THEN [ok |-> TRUE, text |-> response_text]
        ELSE IF Contains(e.msg, <<"429">>)
             THEN [ok |-> FALSE, exc |-> QuotaExceededError]
             ELSE [ok |-> FALSE, exc |-> e]

\* line 58: @retry(stop=stop_after_attempt(3), wait=...) keeps tenacity's
\* default reraise=False, so when the last attempt fails the decorated
\* function raises tenacity.RetryError, whose str() names the class of the
\* last attempt's exception and not its message.
RetryError(last_exc) ==
    [class |-> "RetryError",
     msg |-> <<"RetryError[<Future", "at", "0x7f", "state=finished", "raised">>
                \o (CASE last_exc.class = "ValueError" -> <<"ValueError>]">>
                      [] last_exc.class = "Exception" -> <<"Exception>]">>
                      [] last_exc.class = "ServiceUnavailable"
                             -> <<"ServiceUnavailable>]">>
                      [] last_exc.class = "DeadlineExceeded"
                             -> <<"DeadlineExceeded>]">>
                      [] OTHER -> <<"ResourceExhausted>]">>)]

\* line 78
NoChunksNever(cs) == FALSE

NoChunks(cs) == cs = <<>>

\* lines 129-138: what generate_answer makes of the decorated call's end
Surface(r) ==
    IF r.ok THEN [kind |-> "return", text |-> r.text]
    ELSE IF r.exc.class = "ValueError"
         THEN [kind |-> "return", text |-> NoAnswerMsg]
    ELSE IF Contains(Lower(r.exc.msg), <<"quota">>)
         THEN [kind |-> "return", text |-> QuotaMsg]
    ELSE [kind |-> "raise", msg |-> FailedPrefix \o r.exc.msg]

----------------------------------------------------------------------------
(* SpecAnswer: one call of generate_answer.                                *)

QuestionLens == {12, 16000}
HistoryLens  == {0, 40}

AnswerChunkLists ==
    { <<>>,
      <<RetrievedChunk(<<"a", "a", ".">>)>>,
      <<RetrievedChunk(<<"a", ".">>), RetrievedChunk(<<"a">>)>> }

InitAnswer ==
    /\ pc = "generate_answer"
    /\ retrieved_chunks \in AnswerChunkLists
    /\ question_len \in QuestionLens
    /\ history_len \in HistoryLens
    /\ context = <<>>
    /\ prompt = [built |-> FALSE]
    /\ attempts = <<>>
    /\ outcome = [kind |-> "none"]
    /\ max_length = 0 /\ TruncIdle /\ ChunkIdle /\ KeysIdle /\ EmbedIdle /\ LaterIdle

\* lines 78-80
ReturnNotAvailable ==
    /\ pc = "generate_answer"
    /\ NoChunks(retrieved_chunks)
    /\ outcome' = [kind |-> "return", text |-> NotAvailableMsg]
    /\ pc' = "answered"
    /\ UNCHANGED <<retrieved_chunks, context, question_len, history_len, prompt,
                   attempts, truncVars, chunkVars, keyVars, embedVars, laterVars>>

\* lines 82-126: context, prompt, and the rebuilt prompt when the estimate
\* len(prompt) * 0.25 exceeds MAX_TOKENS
BuildPrompt ==
    /\ pc = "generate_answer"
    /\ ~NoChunks(retrieved_chunks)
    /\ LET ctx == _build_context(retrieved_chunks, ContextLimit)
           total_length == PromptTemplateLen + history_len + Len(ctx) + question_len
       IN  IF total_length > 4 * MAX_TOKENS
           THEN /\ context' = _truncate_text(ctx, DegradedContextLimit)
                /\ prompt' = [built |-> TRUE, degraded |-> TRUE,
                              context |-> _truncate_text(ctx, DegradedContextLimit)]
           ELSE /\ context' = ctx
                /\ prompt' = [built |-> TRUE, degraded |-> FALSE, context |-> ctx]
    /\ pc' = "call_model"
    /\ UNCHANGED <<retrieved_chunks, question_len, history_len, attempts, outcome,
                   truncVars, chunkVars, keyVars, embedVars, laterVars>>

\* lines 129-138 around the decorated _generate_response: one attempt; a
\* failed attempt below the stop limit is retried, the decorated call ends
\* with a returned text or, at the limit, with the retry policy's exception
ModelAttempt ==
    /\ pc = "call_model"
    /\ \E b \in ModelBehaviours :
          LET r == _generate_response(b)
              n == Len(attempts) + 1
          IN  /\ attempts' = Append(attempts, [response |-> b, result |-> r])
              /\ IF r.ok
                 THEN /\ outcome' = Surface(r)
                      /\ pc' = "answered"
                 ELSE IF n >= StopAfterAttempt
                 THEN /\ outcome' = Surface([ok |-> FALSE, exc |-> RetryError(r.exc)])
                      /\ pc' = "answered"
                 ELSE /\ UNCHANGED outcome
                      /\ pc' = "call_model"
    /\ UNCHANGED <<retrieved_chunks, context, question_len, history_len, prompt,
                   truncVars, chunkVars, keyVars, embedVars, laterVars>>

NextAnswer ==
    \/ ReturnNotAvailable
    \/ BuildPrompt
    \/ ModelAttempt

SpecAnswer == InitAnswer /\ [][NextAnswer]_vars

----------------------------------------------------------------------------
(* ConversationManager._build_history                                      *)

MaxTurns == 6         \* most turns in one conversation history
ShortHistLimit == 40  \* a max_length small enough for the history to be cut
DefaultHistLimit == 1000

\* "Assistant (Previous Response): "
PreviousResponseLabel ==
    <<"A", "s", "s", "i", "s", "t", "a", "n", "t", " ", "(", "P", "r", "e", "v", "i", "o", "u", "s", " ", "R", "e", "s", "p", "o", "n", "s", "e", ")", ":", " ">>

\* role.capitalize()
Capitalize(role) ==
    IF role = "assistant" THEN <<"A", "s", "s", "i", "s", "t", "a", "n", "t">>
    ELSE <<"U", "s", "e", "r">>

\* s[-n:] for n > 0
SliceSuffix(s, n) == SubSeq(s, Max(Len(s) - n + 1, 1), Len(s))

\* next((msg["content"] for msg in reversed(h) if msg["role"] == "assistant"), "")
LastResponse(h) ==
    LET hits == {i \in 1..Len(h) : h[i].role = "assistant"}
    IN  IF hits = {} THEN <<>>
        ELSE h[CHOOSE i \in hits : \A j \in hits : j <= i].content

\* the filter of recent_messages
KeepEveryTurn(msg, last_response) == TRUE
KeepTurn(msg, last_response) ==
    msg.role # "assistant" \/ msg.content # last_response

\* f"{msg['role'].capitalize()}: {msg['content']}"
FormatTurn(msg) == Capitalize(msg.role) \o <<":", " ">> \o msg.content

\* "\n".join(lines)
RECURSIVE JoinLines(_)
JoinLines(lines) ==
    IF lines = <<>> THEN <<>>
    ELSE IF Len(lines) = 1 THEN lines[1]
    ELSE lines[1] \o <<"\n">> \o JoinLines(Tail(lines))

_build_history(h, n) ==
    IF h = <<>> THEN <<>>
    ELSE
    LET last_response == LastResponse(h)
        first_line == IF last_response # <<>>
                      THEN << PreviousResponseLabel \o last_response >>
                      ELSE <<>>
        Kept(msg) == KeepTurn(msg, last_response)
        recent_messages == SelectSeq(SliceSuffix(h, 5), Kept)
        shown == SliceSuffix(recent_messages, 4)
        history_lines == first_line \o [i \in 1..Len(shown) |-> FormatTurn(shown[i])]
        joined == JoinLines(history_lines)
    IN  IF Len(joined) > n THEN _truncate_text(joined, n) ELSE joined

(* SpecHistory: one call of _build_history on a drawn history.  Contents   *)
(* are never empty: main.py appends a user turn only for a non-empty       *)
(* prompt and an assistant turn only with an answer or a fixed message.    *)

Roles == {"user", "assistant"}
Contents == { <<"x">>, <<"y", ".">> }
Turns == [role : Roles, content : Contents]
Histories == UNION {[1..k -> Turns] : k \in 0..MaxTurns}

InitHistory ==
    /\ pc = "build_history"
    /\ conversation_history \in Histories
    /\ max_length \in {ShortHistLimit, DefaultHistLimit}
    /\ history_text = <<>>
    /\ TruncIdle /\ CtxIdle /\ ChunkIdle /\ KeysIdle /\ EmbedIdle /\ AnswerIdle
    /\ ProcIdle /\ PdfIdle /\ BatchIdle /\ SessIdle

BuildHistoryCall ==
    /\ pc = "build_history"
    /\ history_text' = _build_history(conversation_history, max_length)
    /\ pc' = "history_built"
    /\ UNCHANGED <<conversation_history, truncVars, ctxVars, chunkVars, keyVars,
                   embedVars, answerVars, procVars, pdfVars, batchVars,
                   sessVars>>

NextHistory == BuildHistoryCall

SpecHistory == InitHistory /\ [][NextHistory]_vars

----------------------------------------------------------------------------
(* PDFDocumentProcessor.process_images, generate_embeddings and            *)
(* _switch_api_key, run by the threads of one processor.  A thread holds   *)
(* one job; its position tpc[t] moves statement by statement where the     *)
(* lock or the shared key fields are touched.                              *)

MaxImages == 3        \* most images handed to one process_images call
MaxThreadImages == 1  \* most images per thread when two threads run

max_image_size == 5000000
ChunkSizeOfMain == 1500

Digits == <<"0", "1", "2", "3", "4", "5", "6", "7", "8", "9">>

\* str(n) for n >= 0
RECURSIVE Str(_)
Str(n) == IF n < 10 THEN <<Digits[n + 1]>>
          ELSE Str(n \div 10) \o <<Digits[(n % 10) + 1]>>

\* nltk.sent_tokenize: a sentence ends at a '.' that is followed by
\* white space; the white space between sentences is dropped
RECURSIVE SentTokenize(_)
SentTokenize(s) ==
    LET t == Strip(s)
        ends == {i \in 1..(Len(t) - 1) : t[i] = "." /\ IsSpace(t[i + 1])}
    IN  IF t = <<>> THEN <<>>
        ELSE IF ends = {} THEN <<t>>
        ELSE LET k == CHOOSE i \in ends : \A j \in ends : i <= j
             IN  <<SubSeq(t, 1, k)>> \o SentTokenize(SubSeq(t, k + 1, Len(t)))

\* f"[Image Text from Page {page_num + 1}]:\n{extracted_text}"
ImageTextOf(page_num, extracted_text) ==
    <<"[", "I", "m", "a", "g", "e", " ", "T", "e", "x", "t", " ", "f", "r", "o", "m", " ", "P", "a", "g", "e", " ">>
        \o Str(page_num + 1) \o <<"]", ":", "\n">> \o extracted_text

\* os.path.basename(pdf_path)
PdfName == "A.pdf"

(* What the environment gives for one image: the decoded byte size, whether *)
(* Image.open accepts the bytes, and what the vision model does when       *)
(* called.  An exception is its numeric code (0 when it carries none) and  *)
(* the words of str(e).                                                    *)

ReturnsText(t) == [kind |-> "text", text |-> t]
Raises(e) == [kind |-> "raise", error |-> e]

ResourceExhausted ==
    [code |-> 429, msg |-> <<"429", "Resource", "exhausted", "check", "quota">>]
QuotaWithoutCode ==
    [code |-> 0, msg |-> <<"Daily", "quota", "reached">>]
InternalError ==
    [code |-> 500, msg |-> <<"500", "Internal", "error">>]
UnidentifiedImageError ==
    [code |-> 0, msg |-> <<"cannot", "identify", "image", "file">>]

Readable(v) == [size |-> 2000, decodable |-> TRUE, vision |-> v]

\* response.text: some text, none, white space only
VisionTexts == { <<"x", ".">>, <<>>, <<" ", "\n">> }

ImageKinds ==
    {Readable(ReturnsText(x)) : x \in VisionTexts} \cup
    { Readable(Raises(ResourceExhausted)),
      Readable(Raises(QuotaWithoutCode)),
      Readable(Raises(InternalError)),
      [size |-> max_image_size + 1, decodable |-> TRUE,
       vision |-> ReturnsText(<<"x", ".">>)],
      [size |-> 2000, decodable |-> FALSE, vision |-> ReturnsText(<<"x", ".">>)] }

\* image_data: (page_num, img) pairs, here one image per page
WithPages(kinds) ==
    [i \in 1..Len(kinds) |-> [page_num |-> i - 1, img |-> kinds[i]]]

ImageJobs(kinds, n) ==
    {[kind |-> "images", image_data |-> WithPages(l)] :
        l \in UNION {[1..k -> kinds] : k \in 0..n}}

EmbedJobs(outcomes) == {[kind |-> "embed", outcome |-> o] : o \in outcomes}

Threads == DOMAIN tpc

\* with self._lock: the lock can be taken
LockIgnored(l) == TRUE
LockAvailable(l) == l = "free"

\* lines 178-179: the lock when the with-block of the vision call is left
LockKeptOnError(t, raised) == IF raised THEN t ELSE "free"
LockAfterCall(t, raised) == "free"

\* lines 191-194: what the handler does with the exception
HandlerReraises(e) ==
    IF Contains(e.msg, <<"429">>) THEN "rotate" ELSE "abort"
HandlerAction(e) ==
    IF Contains(e.msg, <<"429">>) THEN "rotate" ELSE "continue"

CurrentImage(t) == job[t].image_data[img_i[t]]

restOfProc == <<pc, truncVars, ctxVars, chunkVars, embedVars, answerVars, histVars,
                pdfVars, batchVars, sessVars>>

\* lines 166-168 and 196-197: the loop is over, the list is returned
ProcessImagesReturn(t) ==
    /\ tpc[t] = "img_next"
    /\ img_i[t] > Len(job[t].image_data)
    /\ tpc' = [tpc EXCEPT ![t] = "done"]
    /\ UNCHANGED <<job, img_i, image_chunks, attempted, err, _lock, next_index,
                   rotations, keyVars,
                   restOfProc>>

\* lines 168-177: the next image is taken up, measured and opened
ImageStart(t) ==
    /\ tpc[t] = "img_next"
    /\ img_i[t] <= Len(job[t].image_data)
    /\ attempted' = [attempted EXCEPT ![t] = Append(@, img_i[t])]
    /\ IF CurrentImage(t).img.size > max_image_size
       THEN /\ img_i' = [img_i EXCEPT ![t] = @ + 1]
            /\ UNCHANGED <<tpc, err>>
       ELSE IF ~CurrentImage(t).img.decodable
       THEN /\ err' = [err EXCEPT ![t] = UnidentifiedImageError]
            /\ tpc' = [tpc EXCEPT ![t] = "img_except"]
            /\ UNCHANGED img_i
       ELSE /\ tpc' = [tpc EXCEPT ![t] = "img_lock"]
            /\ UNCHANGED <<img_i, err>>
    /\ UNCHANGED <<job, image_chunks, _lock, next_index, rotations, keyVars,
                   restOfProc>>

\* line 178: with self._lock
AcquireForVision(t) ==
    /\ tpc[t] = "img_lock"
    /\ LockAvailable(_lock)
    /\ _lock' = t
    /\ tpc' = [tpc EXCEPT ![t] = "img_call"]
    /\ UNCHANGED <<job, img_i, image_chunks, attempted, err, next_index,
                   rotations, keyVars,
                   restOfProc>>

\* lines 182-190: the chunks made of the text extracted from one image
ChunksOfImageText(page_num, extracted_text) ==
    IF Strip(extracted_text) # <<>>
    THEN _create_text_chunks(SentTokenize(ImageTextOf(page_num, extracted_text)),
                             ChunkSizeOfMain, PdfName, <<page_num + 1>>, "image")
    ELSE <<>>

\* the same, tabulated over the pages and the answers of the vision model
ExtractedChunks ==
    [page_num \in 0..MaxImages, extracted_text \in VisionTexts |->
        ChunksOfImageText(page_num, extracted_text)]

\* lines 179-190: the vision call under the lock, the lock given back, and
\* the text, when there is some, chunked
VisionCall(t) ==
    /\ tpc[t] = "img_call"
    /\ LET v == CurrentImage(t).img.vision
           page_num == CurrentImage(t).page_num
       IN  /\ _lock' = LockAfterCall(t, v.kind = "raise")
           /\ IF v.kind = "raise"
              THEN /\ err' = [err EXCEPT ![t] = v.error]
                   /\ tpc' = [tpc EXCEPT ![t] = "img_except"]
                   /\ UNCHANGED <<img_i, image_chunks>>
              ELSE /\ image_chunks' = [image_chunks EXCEPT ![t] =
                          @ \o ExtractedChunks[page_num, v.text]]
                   /\ img_i' = [img_i EXCEPT ![t] = @ + 1]
                   /\ tpc' = [tpc EXCEPT ![t] = "img_next"]
                   /\ UNCHANGED err
    /\ UNCHANGED <<job, attempted, next_index, rotations, keyVars,
                   restOfProc>>

\* lines 191-194: except Exception as e
ImageExcept(t) ==
    /\ tpc[t] = "img_except"
    /\ IF HandlerAction(err[t]) = "rotate"
       THEN /\ tpc' = [tpc EXCEPT ![t] = "rot_lock"]
            /\ UNCHANGED img_i
       ELSE IF HandlerAction(err[t]) = "continue"
       THEN /\ tpc' = [tpc EXCEPT ![t] = "img_next"]
            /\ img_i' = [img_i EXCEPT ![t] = @ + 1]
       ELSE /\ tpc' = [tpc EXCEPT ![t] = "aborted"]
            /\ UNCHANGED img_i
    /\ UNCHANGED <<job, image_chunks, attempted, err, _lock, next_index,
                   rotations, keyVars,
                   restOfProc>>

\* line 201: with self._lock
SwitchAcquire(t) ==
    /\ tpc[t] = "rot_lock"
    /\ LockAvailable(_lock)
    /\ _lock' = t
    /\ tpc' = [tpc EXCEPT ![t] = "rot_read"]
    /\ UNCHANGED <<job, img_i, image_chunks, attempted, err, next_index,
                   rotations, keyVars,
                   restOfProc>>

\* line 202, right-hand side
SwitchComputeIndex(t) ==
    /\ tpc[t] = "rot_read"
    /\ next_index' = [next_index EXCEPT ![t] =
                         NextKeyIndex(current_api_key_index, Len(api_keys))]
    /\ tpc' = [tpc EXCEPT ![t] = "rot_store"]
    /\ UNCHANGED <<job, img_i, image_chunks, attempted, err, _lock, rotations,
                   keyVars,
                   restOfProc>>

\* line 202, the store
SwitchStoreIndex(t) ==
    /\ tpc[t] = "rot_store"
    /\ current_api_key_index' = next_index[t]
    /\ rotations' = rotations + 1
    /\ tpc' = [tpc EXCEPT ![t] = "rot_key"]
    /\ UNCHANGED <<job, img_i, image_chunks, attempted, err, _lock, next_index,
                   api_keys, current_api_key, configured_key,
                   restOfProc>>

\* line 203
SwitchSetKey(t) ==
    /\ tpc[t] = "rot_key"
    /\ current_api_key' = At(api_keys, current_api_key_index)
    /\ tpc' = [tpc EXCEPT ![t] = "rot_configure"]
    /\ UNCHANGED <<job, img_i, image_chunks, attempted, err, _lock, next_index,
                   rotations, api_keys, current_api_key_index, configured_key,
                   restOfProc>>

\* lines 204-205, the lock given back, and the return to the caller:
\* process_images goes on with the next image, generate_embeddings
\* returns []
SwitchConfigureAndReturn(t) ==
    /\ tpc[t] = "rot_configure"
    /\ configured_key' = current_api_key
    /\ _lock' = "free"
    /\ IF job[t].kind = "images"
       THEN /\ tpc' = [tpc EXCEPT ![t] = "img_next"]
            /\ img_i' = [img_i EXCEPT ![t] = @ + 1]
       ELSE /\ tpc' = [tpc EXCEPT ![t] = "done"]
            /\ UNCHANGED img_i
    /\ UNCHANGED <<job, image_chunks, attempted, err, next_index, rotations,
                   api_keys, current_api_key_index, current_api_key,
                   restOfProc>>

\* generate_embeddings lines 208-229 in a thread: embed_documents is called
\* without the lock; only "Quota exceeded" leads to _switch_api_key
EmbedCall(t) ==
    /\ tpc[t] = "emb_call"
    /\ IF job[t].outcome.kind # "ok" /\ IsQuotaExceeded(job[t].outcome)
       THEN /\ err' = [err EXCEPT ![t] = job[t].outcome]
            /\ tpc' = [tpc EXCEPT ![t] = "rot_lock"]
       ELSE /\ tpc' = [tpc EXCEPT ![t] = "done"]
            /\ UNCHANGED err
    /\ UNCHANGED <<job, img_i, image_chunks, attempted, _lock, next_index,
                   rotations, keyVars,
                   restOfProc>>

ThreadStep(t) ==
    \/ ProcessImagesReturn(t)
    \/ ImageStart(t)
    \/ AcquireForVision(t)
    \/ VisionCall(t)
    \/ ImageExcept(t)
    \/ SwitchAcquire(t)
    \/ SwitchComputeIndex(t)
    \/ SwitchStoreIndex(t)
    \/ SwitchSetKey(t)
    \/ SwitchConfigureAndReturn(t)
    \/ EmbedCall(t)

\* the state of a processor after __init__ (lines 25-39) whose threads
\* are about to run the jobs js
ProcessorStarts(js) ==
    /\ pc = "threads"
    /\ api_keys \in {<<"GEMINI_API_KEY_1">>, <<"GEMINI_API_KEY_1", "GEMINI_API_KEY_2">>}
    /\ current_api_key_index = 0
    /\ current_api_key = At(api_keys, 0)
    /\ configured_key = At(api_keys, 0)
    /\ job = js
    /\ tpc = [t \in DOMAIN js |-> IF js[t].kind = "images" THEN "img_next"
                                                            ELSE "emb_call"]
    /\ img_i = [t \in DOMAIN js |-> 1]
    /\ image_chunks = [t \in DOMAIN js |-> <<>>]
    /\ attempted = [t \in DOMAIN js |-> <<>>]
    /\ err = [t \in DOMAIN js |-> [code |-> 0, msg |-> <<>>]]
    /\ next_index = [t \in DOMAIN js |-> 0]
    /\ _lock = "free"
    /\ rotations = 0
    /\ max_length = 0 /\ TruncIdle /\ CtxIdle /\ ChunkIdle /\ EmbedIdle
    /\ AnswerIdle /\ HistIdle /\ PdfIdle /\ BatchIdle /\ SessIdle

(* SpecImages: one thread runs process_images on a drawn image list.       *)

InitImages ==
    \E j \in ImageJobs(ImageKinds, MaxImages) : ProcessorStarts([t \in {"t1"} |-> j])

NextImages ==
    \/ \E t \in Threads : ProcessImagesReturn(t)
    \/ \E t \in Threads : ImageStart(t)
    \/ \E t \in Threads : AcquireForVision(t)
    \/ \E t \in Threads : VisionCall(t)
    \/ \E t \in Threads : ImageExcept(t)
    \/ \E t \in Threads : SwitchAcquire(t)
    \/ \E t \in Threads : SwitchComputeIndex(t)
    \/ \E t \in Threads : SwitchStoreIndex(t)
    \/ \E t \in Threads : SwitchSetKey(t)
    \/ \E t \in Threads : SwitchConfigureAndReturn(t)

SpecImages == InitImages /\ [][NextImages]_vars

(* SpecThreads: two threads of one processor, each running process_images  *)
(* or generate_embeddings.                                                 *)

ThreadJobs ==
    ImageJobs({Readable(ReturnsText(<<"x", ".">>)),
               Readable(Raises(ResourceExhausted))}, MaxThreadImages)
        \cup EmbedJobs({o \in EmbedOutcomes : o.kind \in {"ok", "quota"}})

InitThreads == \E js \in [{"t1", "t2"} -> ThreadJobs] : ProcessorStarts(js)

NextThreads == NextImages \/ \E t \in Threads : EmbedCall(t)

SpecThreads == InitThreads /\ [][NextThreads]_vars

\* every thread keeps being scheduled
SpecThreadsFair ==
    SpecThreads /\ \A t \in {"t1", "t2"} : WF_vars(ThreadStep(t))

----------------------------------------------------------------------------
(* PDFDocumentProcessor._process_pdf_batch and _is_valid_image             *)

MaxPages == 3         \* most pages of a PDF
MaxPageBatch == 2     \* largest page_batch_size
MaxWorkers == 2       \* largest max_workers
SmallChunkSize == 24  \* a chunk_size that one page of text reaches
LargeChunkSize == 60  \* a chunk_size that three pages of text reach

(* A page is what PyMuPDF gives for it: the text of get_text("dict") as    *)
(* lines 90-96 put it together, the text of get_text(), and the images of  *)
(* get_images with the byte length extract_image finds (extractable FALSE  *)
(* when extract_image raises).                                             *)

TextPage ==
    [dict_text |-> <<"a", ".", "\n">>, plain_text |-> <<"a", ".", "\n">>,
     images |-> <<>>]
FallbackPage ==
    [dict_text |-> <<" ", "\n">>, plain_text |-> <<"b", ".", "\n">>,
     images |-> <<[size |-> 1000, extractable |-> TRUE]>>]
BlankPage ==
    [dict_text |-> <<>>, plain_text |-> <<>>,
     images |-> <<[size |-> 999, extractable |-> TRUE],
                  [size |-> 2000, extractable |-> FALSE]>>]

PageKinds == {TextPage, FallbackPage, BlankPage}

Docs(kinds) == UNION {[1..n -> kinds] : n \in 0..MaxPages}

\* lines 126-135
_is_valid_image(img) == img.extractable /\ ~(img.size < 1000)

\* lines 89-98: the structured text, or the whole-page text when that is blank
PageTextOf(page) ==
    IF Strip(page.dict_text) = <<>> THEN page.plain_text ELSE page.dict_text

\* line 99
HasText(page) == Strip(PageTextOf(page)) # <<>>

\* line 100: f"[Text from Page {page_num + 1}]:\n{page_text}\n"
PageBlock(page_num, page_text) ==
    <<"[", "T", "e", "x", "t", " ", "f", "r", "o", "m", " ", "P", "a", "g", "e", " ">>
        \o Str(page_num + 1) \o <<"]", ":", "\n">> \o page_text \o <<"\n">>

\* line 107
FilteredImages(page_num, page) ==
    LET Valid(img) == _is_valid_image(img)
        kept == SelectSeq(page.images, Valid)
    IN  [i \in 1..Len(kept) |-> <<page_num, kept[i]>>]

\* lines 88-116: one turn of the loop over the pages of the batch
BatchPage(b, page_num, page, size) ==
    LET text_buffer == IF HasText(page)
                       THEN b.text_buffer \o PageBlock(page_num, PageTextOf(page))
                       ELSE b.text_buffer
        page_refs == Append(b.page_refs, page_num + 1)
        image_data == b.image_data \o FilteredImages(page_num, page)
    IN  IF Len(text_buffer) >= size
        THEN [text_buffer |-> <<>>, page_refs |-> <<>>,
              text_chunks |-> b.text_chunks \o
                  _create_text_chunks(SentTokenize(text_buffer), size, PdfName,
                                      page_refs, "text"),
              image_data |-> image_data]
        ELSE [text_buffer |-> text_buffer, page_refs |-> page_refs,
              text_chunks |-> b.text_chunks, image_data |-> image_data]

\* lines 118-124: the remainder is chunked and the two lists are returned
BatchEnd(b, size) ==
    [text_chunks |->
        IF Strip(b.text_buffer) # <<>>
        THEN b.text_chunks \o
                 _create_text_chunks(SentTokenize(b.text_buffer), size, PdfName,
                                     b.page_refs, "text")
        ELSE b.text_chunks,
     image_data |-> b.image_data]

\* for page_num in range(start_page, end_page)
RECURSIVE BatchLoop(_, _, _, _, _)
BatchLoop(doc, b, from, to, size) ==
    IF from >= to THEN b
    ELSE BatchLoop(doc, BatchPage(b, from, At(doc, from), size), from + 1, to, size)

_process_pdf_batch(doc, from, to, size) ==
    BatchEnd(BatchLoop(doc, EmptyBatch, from, to, size), size)

(* SpecBatch: one call of _process_pdf_batch, page by page.                *)

restOfBatch == <<truncVars, ctxVars, keyVars, embedVars, answerVars, histVars,
                 procVars, pdfVars, sessVars, sentences, chunks>>

InitBatch ==
    /\ pc = "batch_loop"
    /\ doc_pages \in Docs(PageKinds)
    /\ chunk_size \in {SmallChunkSize, LargeChunkSize}
    /\ start_page \in 0..Len(doc_pages)
    /\ end_page = Len(doc_pages)
    /\ page_no = start_page
    /\ batch = EmptyBatch
    /\ batch_result = NoResult
    /\ page_batch_size = 1 /\ max_workers = 1
    /\ futures = <<>> /\ collected = <<>> /\ finish_order = <<>>
    /\ all_text_chunks = <<>> /\ all_image_data = <<>>
    /\ sentences = <<>> /\ chunks = <<>>
    /\ max_length = 0 /\ TruncIdle /\ CtxIdle /\ KeysIdle /\ EmbedIdle
    /\ AnswerIdle /\ HistIdle /\ ProcIdle /\ SessIdle

BatchPageStep ==
    /\ pc = "batch_loop"
    /\ page_no < end_page
    /\ batch' = BatchPage(batch, page_no, At(doc_pages, page_no), chunk_size)
    /\ page_no' = page_no + 1
    /\ UNCHANGED <<pc, start_page, end_page, batch_result, doc_pages, chunk_size,
                   restOfBatch>>

BatchReturn ==
    /\ pc = "batch_loop"
    /\ page_no >= end_page
    /\ batch_result' = BatchEnd(batch, chunk_size)
    /\ pc' = "batch_done"
    /\ UNCHANGED <<start_page, end_page, page_no, batch, doc_pages, chunk_size,
                   restOfBatch>>

NextBatch == BatchPageStep \/ BatchReturn

SpecBatch == InitBatch /\ [][NextBatch]_vars

----------------------------------------------------------------------------
(* PDFDocumentProcessor.process_pdf: the batches are submitted to a pool   *)
(* of max_workers threads, which take them in order of submission and      *)
(* finish in any order; the results are taken in order of submission.      *)

\* range(0, total_pages, page_batch_size), as a sequence
BatchStarts(total_pages, b) ==
    [k \in 1..((total_pages + b - 1) \div b) |-> (k - 1) * b]

\* lines 70-71: the future whose result is taken next
TakesAnyFinished(k, done) == TRUE
IsNextInLine(k, done) == k = Len(done) + 1

Running == {k \in 1..Len(futures) : futures[k].state = "running"}

restOfPdf == <<truncVars, ctxVars, keyVars, embedVars, answerVars, histVars,
               procVars, batchVars, sessVars, sentences, chunks>>

InitPdf ==
    /\ pc = "pdf_submit"
    /\ doc_pages \in Docs(PageKinds)
    /\ chunk_size \in {SmallChunkSize, LargeChunkSize}
    /\ page_batch_size \in 1..MaxPageBatch
    /\ max_workers \in 1..MaxWorkers
    /\ futures = <<>> /\ collected = <<>> /\ finish_order = <<>>
    /\ all_text_chunks = <<>> /\ all_image_data = <<>>
    /\ sentences = <<>> /\ chunks = <<>>
    /\ max_length = 0 /\ TruncIdle /\ CtxIdle /\ KeysIdle /\ EmbedIdle
    /\ AnswerIdle /\ HistIdle /\ ProcIdle /\ BatchIdle /\ SessIdle

\* lines 59-68
SubmitBatches ==
    /\ pc = "pdf_submit"
    /\ futures' =
           LET starts == BatchStarts(Len(doc_pages), page_batch_size)
           IN  [k \in 1..Len(starts) |->
                   [start_page |-> starts[k],
                    end_page |-> Min(starts[k] + page_batch_size, Len(doc_pages)),
                    state |-> "queued", result |-> NoResult]]
    /\ pc' = "pdf_collect"
    /\ UNCHANGED <<doc_pages, chunk_size, page_batch_size, max_workers, collected,
                   finish_order, all_text_chunks, all_image_data, restOfPdf>>

\* a free worker of the pool takes the oldest batch not yet taken
WorkerStart(k) ==
    /\ pc = "pdf_collect"
    /\ futures[k].state = "queued"
    /\ Cardinality(Running) < max_workers
    /\ \A j \in 1..(k - 1) : futures[j].state # "queued"
    /\ futures' = [futures EXCEPT ![k].state = "running"]
    /\ UNCHANGED <<pc, doc_pages, chunk_size, page_batch_size, max_workers, collected,
                   finish_order, all_text_chunks, all_image_data, restOfPdf>>

\* the worker returns from _process_pdf_batch (lines 79-124)
WorkerFinish(k) ==
    /\ pc = "pdf_collect"
    /\ futures[k].state = "running"
    /\ futures' = [futures EXCEPT
           ![k].state = "done",
           ![k].result = _process_pdf_batch(doc_pages, futures[k].start_page,
                                            futures[k].end_page, chunk_size)]
    /\ finish_order' = Append(finish_order, k)
    /\ UNCHANGED <<pc, doc_pages, chunk_size, page_batch_size, max_workers, collected,
                   all_text_chunks, all_image_data, restOfPdf>>

\* lines 70-73
CollectResult(k) ==
    /\ pc = "pdf_collect"
    /\ futures[k].state = "done"
    /\ \A i \in 1..Len(collected) : collected[i] # k
    /\ IsNextInLine(k, collected)
    /\ all_text_chunks' = all_text_chunks \o futures[k].result.text_chunks
    /\ all_image_data' = all_image_data \o futures[k].result.image_data
    /\ collected' = Append(collected, k)
    /\ UNCHANGED <<pc, doc_pages, chunk_size, page_batch_size, max_workers, futures,
                   finish_order, restOfPdf>>

\* lines 75-77
ProcessPdfReturn ==
    /\ pc = "pdf_collect"
    /\ Len(collected) = Len(futures)
    /\ pc' = "pdf_done"
    /\ UNCHANGED <<pdfVars, chunk_size, restOfPdf>>

NextPdf ==
    \/ SubmitBatches
    \/ \E k \in 1..Len(futures) : WorkerStart(k)
    \/ \E k \in 1..Len(futures) : WorkerFinish(k)
    \/ \E k \in 1..Len(futures) : CollectResult(k)
    \/ ProcessPdfReturn

SpecPdf == InitPdf /\ [][NextPdf]_vars

----------------------------------------------------------------------------
(* The session of main.py: book uploads, book deletions and queries against *)
(* the vector store of vector_db.py.                                        *)

MaxBooks == 2
MaxSessionOps == 4

\* main.py line 228: k=10
QueryK == 10

UploadNames == <<"A.pdf", "B.pdf", "C.pdf", "D.pdf">>
SessionBooks == {UploadNames[i] : i \in 1..MaxBooks}

\* the vector a text is embedded to; the texts of one book lie close together
BookEmbedding(book_name) ==
    10 * (CHOOSE i \in 1..Len(UploadNames) : UploadNames[i] = book_name)
QuestionEmbeddings == {0, 10 * MaxBooks + 5}

\* main.py lines 155-167 and vector_db.py lines 46-57: the chunks of a book
\* carry source = book_name; filter_complex_metadata drops the pages list
BookDocuments(book_name) ==
    << [page_content |-> <<"a", ".">>,
        metadata |-> [source |-> book_name, type |-> "text"],
        embedding |-> BookEmbedding(book_name)] >>

Distance(a, b) == IF a < b THEN b - a ELSE a - b

\* the position of the document nearest to the question, the first on a tie
NearestIndex(docs, question_embedding) ==
    CHOOSE i \in 1..Len(docs) :
        \A j \in 1..Len(docs) :
            \/ Distance(docs[i].embedding, question_embedding)
                  < Distance(docs[j].embedding, question_embedding)
            \/ /\ Distance(docs[i].embedding, question_embedding)
                     = Distance(docs[j].embedding, question_embedding)
               /\ i <= j

WithoutIndex(docs, i) ==
    [j \in 1..(Len(docs) - 1) |-> IF j < i THEN docs[j] ELSE docs[j + 1]]

\* vector_db.py lines 69-72: the n documents nearest to the question
RECURSIVE similarity_search_by_vector(_, _, _)
similarity_search_by_vector(docs, question_embedding, n) ==
    IF n = 0 \/ docs = <<>> THEN <<>>
    ELSE LET i == NearestIndex(docs, question_embedding)
         IN  <<docs[i]>> \o
             similarity_search_by_vector(WithoutIndex(docs, i),
                                         question_embedding, n - 1)

\* vector_db.py line 67: the filter is built and logged
FilterCondition(selected) ==
    IF selected # <<>> THEN {selected[i] : i \in 1..Len(selected)} ELSE {}

\* vector_db.py lines 69-72: the search is made without the filter
SearchedDocuments(docs, selected) == docs

\* vector_db.py lines 62-86
query_vector_db(docs, question_embedding, n, selected) ==
    LET results == similarity_search_by_vector(SearchedDocuments(docs, selected),
                                               question_embedding, n)
    IN  [i \in 1..Len(results) |->
            [text |-> results[i].page_content, metadata |-> results[i].metadata]]

\* main.py lines 216-217: the selection is a sub-list of the registered names
Selections ==
    {SelectSeq(UploadNames, LAMBDA b : b \in S) : S \in SUBSET processed_books}

restOfSession == <<pc, truncVars, context, chunkVars, keyVars, text_chunks,
                   embed_outcome, text_chunks_with_embeddings, uploads,
                   answerVars, histVars, procVars, pdfVars, batchVars>>

InitSession ==
    /\ pc = "session"
    /\ processed_books = {}
    /\ selected_books = <<>>
    /\ session_ops = 0
    /\ max_length = 0 /\ TruncIdle /\ CtxIdle /\ ChunkIdle /\ KeysIdle
    /\ EmbedIdle /\ AnswerIdle /\ HistIdle /\ ProcIdle /\ PdfIdle /\ BatchIdle

\* main.py lines 142-147: a book whose hash is registered is skipped
UploadSkipped(book_name) ==
    /\ pc = "session"
    /\ session_ops < MaxSessionOps
    /\ book_name \in processed_books
    /\ session_ops' = session_ops + 1
    /\ UNCHANGED <<processed_books, vector_store, retrieved_chunks,
                   selected_books, restOfSession>>

\* main.py lines 149-171: processing, embedding or storing fails and the
\* loop continues with the next file
UploadFails(book_name) ==
    /\ pc = "session"
    /\ session_ops < MaxSessionOps
    /\ book_name \notin processed_books
    /\ session_ops' = session_ops + 1
    /\ UNCHANGED <<processed_books, vector_store, retrieved_chunks,
                   selected_books, restOfSession>>

\* main.py lines 149-198: the chunks are stored and the book is registered
UploadStored(book_name) ==
    /\ pc = "session"
    /\ session_ops < MaxSessionOps
    /\ book_name \notin processed_books
    /\ vector_store' = vector_store \o BookDocuments(book_name)
    /\ processed_books' = processed_books \cup {book_name}
    /\ session_ops' = session_ops + 1
    /\ UNCHANGED <<retrieved_chunks, selected_books, restOfSession>>

\* main.py line 123 and vector_db.py lines 20-40: what the store holds after
\* VectorDBManager is constructed again over the same persist directory: a
\* new empty collection, or what the store held before (reloaded from the
\* directory, or kept because the construction raised, lines 125-126)
ReinitializedStores(docs) == {<<>>, docs}

\* main.py lines 118-128
DeleteBook(book_name) ==
    /\ pc = "session"
    /\ session_ops < MaxSessionOps
    /\ book_name \in processed_books
    /\ processed_books' = processed_books \ {book_name}
    /\ vector_store' \in ReinitializedStores(vector_store)
    /\ session_ops' = session_ops + 1
    /\ UNCHANGED <<retrieved_chunks, selected_books, restOfSession>>

\* main.py lines 216-228 and vector_db.py lines 62-86
QueryVectorDb(selected) ==
    /\ pc = "session"
    /\ session_ops < MaxSessionOps
    /\ \E question_embedding \in QuestionEmbeddings :
          retrieved_chunks' =
              query_vector_db(vector_store, question_embedding, QueryK, selected)
    /\ selected_books' = selected
    /\ session_ops' = session_ops + 1
    /\ UNCHANGED <<processed_books, vector_store, restOfSession>>

\* vector_db.py lines 84-86 and main.py lines 244-246: embedding the question
\* raises and no chunks are retrieved
QueryFails ==
    /\ pc = "session"
    /\ session_ops < MaxSessionOps
    /\ session_ops' = session_ops + 1
    /\ UNCHANGED <<processed_books, vector_store, retrieved_chunks,
                   selected_books, restOfSession>>

NextSession ==
    \/ \E b \in SessionBooks : UploadSkipped(b)
    \/ \E b \in SessionBooks : UploadFails(b)
    \/ \E b \in SessionBooks : UploadStored(b)
    \/ \E b \in SessionBooks : DeleteBook(b)
    \/ \E s \in Selections : QueryVectorDb(s)
    \/ QueryFails

SpecSession == InitSession /\ [][NextSession]_vars

----------------------------------------------------------------------------
(* C9 -- _truncate_text(text, n) returns at most n characters: a text of   *)
(* at most n characters comes back unchanged; a longer text whose first n  *)
(* characters hold a '.' is cut at the last such '.'; otherwise the result *)
(* is the hard cut followed by a period.                                   *)

HardCut == SlicePrefix(text, max_length)

C9_TruncateWithinLimit ==
    pc = "truncated" =>
        /\ Len(truncated) <= max_length
        /\ Len(text) <= max_length => truncated = text
        /\ (Len(text) > max_length /\ LastIndexOf(HardCut, ".") > 0) =>
               truncated = SubSeq(text, 1, LastIndexOf(HardCut, "."))
        /\ (Len(text) > max_length /\ LastIndexOf(HardCut, ".") = 0) =>
               /\ truncated[Len(truncated)] = "."
               /\ SubSeq(truncated, 1, Len(truncated) - 1)
                      = SubSeq(text, 1, Len(truncated) - 1)

(* C10 -- the string returned by _build_context is never longer than       *)
(* max_length plus the separator overhead.                                 *)

C10_ContextWithinBudget ==
    pc = "context_built" => Len(context) <= max_length + SeparatorOverhead

----------------------------------------------------------------------------
(* C7 -- every produced chunk is at most chunk_size characters long unless *)
(* it consists of exactly one sentence that is itself longer than          *)
(* chunk_size; such a sentence is a chunk of its own, kept whole.          *)

C7_ChunkSizeBound ==
    pc = "chunked" =>
        /\ \A j \in 1..Len(chunks) :
              \/ Len(chunks[j].text) <= chunk_size
              \/ \E k \in 1..Len(sentences) :
                    /\ chunks[j].text = sentences[k]
                    /\ Len(sentences[k]) > chunk_size
        /\ \A k \in 1..Len(sentences) :
              Len(sentences[k]) > chunk_size =>
                  \E j \in 1..Len(chunks) : chunks[j].text = sentences[k]

\* an over-long sentence was chunked together with shorter neighbours
C7_Witness ==
    /\ pc = "chunked"
    /\ Len(chunks) >= 2
    /\ \E j \in 1..Len(chunks) : Len(chunks[j].text) > chunk_size
    /\ \E j \in 1..Len(chunks) :
          /\ Len(chunks[j].text) <= chunk_size
          /\ \A k \in 1..Len(sentences) : chunks[j].text # sentences[k]

(* C8 -- the chunker loses, duplicates and reorders nothing: the chunks    *)
(* are consecutive groups of the input sentences, every sentence in        *)
(* exactly one group, in order; so the chunks' concatenation is the input  *)
(* modulo whitespace.                                                      *)

RECURSIVE JoinRange(_, _, _)
\* " ".join(sents[lo..hi])
JoinRange(sents, lo, hi) ==
    IF lo > hi THEN <<>>
    ELSE IF lo = hi THEN sents[lo]
    ELSE sents[lo] \o <<" ">> \o JoinRange(sents, lo + 1, hi)

RECURSIVE ConcatAll(_, _)
ConcatAll(seqs, i) ==
    IF i > Len(seqs) THEN <<>> ELSE seqs[i] \o ConcatAll(seqs, i + 1)

Unspaced(s) == SelectSeq(s, LAMBDA c : ~IsSpace(c))

ChunkTexts == [j \in 1..Len(chunks) |-> chunks[j].text]

\* ends[j] is the index of the last sentence of chunk j
IsGrouping(ends) ==
    /\ Len(ends) = Len(chunks)
    /\ \A j \in 1..Len(ends) :
          LET lo == IF j = 1 THEN 1 ELSE ends[j - 1] + 1
          IN  /\ lo <= ends[j]
              /\ chunks[j].text = JoinRange(sentences, lo, ends[j])
    /\ IF Len(ends) = 0 THEN Len(sentences) = 0
       ELSE ends[Len(ends)] = Len(sentences)

C8_ChunksReconstructInput ==
    pc = "chunked" =>
        /\ \E ends \in [1..Len(chunks) -> 1..Len(sentences)] : IsGrouping(ends)
        /\ Unspaced(ConcatAll(ChunkTexts, 1)) = Unspaced(ConcatAll(sentences, 1))

\* a sentence that did not fit started a new chunk after a flush
C8_Witness ==
    /\ pc = "chunked"
    /\ Len(sentences) = MaxSents
    /\ Len(chunks) >= 2
    /\ Len(chunks) < Len(sentences)

----------------------------------------------------------------------------
(* C5 -- generate_embeddings is all-or-nothing: when the provider raises,  *)
(* it returns the empty list and no input chunk has gained an embedding;   *)
(* when it succeeds it returns all input chunks, in input order, each with *)
(* an embedding.  No returned list holds a chunk without an embedding, so  *)
(* every chunk the upload flow hands to the vector store has one.          *)

EmbedCallStep == pc = "embed" /\ pc' = "embedded"

StoreStep == pc = "embedded" /\ vector_store' # vector_store

C5_EmbeddingAllOrNothing ==
    [][/\ StoreStep =>
            /\ \A i \in 1..Len(text_chunks_with_embeddings) :
                  HasEmbedding(text_chunks_with_embeddings[i])
            /\ Len(vector_store') =
                  Len(vector_store) + Len(text_chunks_with_embeddings)
       /\ (pc = "embedded" /\ pc' = "upload" /\ ~StoreStep) =>
            text_chunks_with_embeddings = <<>>
       /\ EmbedCallStep =>
         /\ embed_outcome'.kind # "ok" =>
               /\ text_chunks_with_embeddings' = <<>>
               /\ text_chunks' = text_chunks
               /\ \A i \in 1..Len(text_chunks') : ~HasEmbedding(text_chunks'[i])
         /\ embed_outcome'.kind = "ok" =>
               /\ Len(text_chunks_with_embeddings') = Len(text_chunks)
               /\ \A i \in 1..Len(text_chunks) :
                     /\ text_chunks_with_embeddings'[i].text = text_chunks[i].text
                     /\ text_chunks_with_embeddings'[i].metadata
                            = text_chunks[i].metadata
         /\ \A i \in 1..Len(text_chunks_with_embeddings') :
               HasEmbedding(text_chunks_with_embeddings'[i])]_vars

\* a failed call after a successful one: the store holds the first book only
C5_Witness ==
    /\ pc = "embedded"
    /\ embed_outcome.kind = "network"
    /\ Len(text_chunks) = MaxBatch
    /\ text_chunks_with_embeddings = <<>>
    /\ Len(vector_store) = MaxBatch

(* C6 -- in generate_embeddings a quota-exceeded error advances the        *)
(* current key index by one position, round-robin; a network error, any    *)
(* other error and a successful call leave it unchanged.                   *)

----------------------------------------------------------------------------
(* C1 -- with chunks present the model is called at most 3 times, calling  *)
(* stops at the first attempt that yields non-empty text, and that text is *)
(* returned; when all three attempts fail with transient errors, the error *)
(* of the final attempt is what generate_answer surfaces.                  *)

LastAttempt == attempts[Len(attempts)]

AllAttemptsFailed == \A i \in 1..Len(attempts) : ~attempts[i].result.ok

TransientFailure(a) ==
    a.response.kind = "raise" /\ ~Contains(a.response.exc.msg, <<"429">>)

C1_RetryThenSurfaceFinalError ==
    /\ Len(attempts) <= StopAfterAttempt
    /\ \A i \in 1..(Len(attempts) - 1) : ~attempts[i].result.ok
    /\ (pc = "answered" /\ attempts # <<>> /\ LastAttempt.result.ok) =>
           outcome = [kind |-> "return", text |-> LastAttempt.result.text]
    /\ (/\ pc = "answered"
        /\ attempts # <<>>
        /\ \A i \in 1..Len(attempts) : TransientFailure(attempts[i])) =>
           /\ Len(attempts) = StopAfterAttempt
           /\ outcome = Surface(LastAttempt.result)

(* C2 -- when every attempt made completes with empty text,                *)
(* generate_answer does not raise: it returns the fixed "No answer         *)
(* generated ..." message, which differs from the quota message.           *)

EmptyText(a) ==
    a.response.kind = "text" /\ Strip(a.response.text) = <<>>

C2_EmptyResponseMessage ==
    (/\ pc = "answered"
     /\ attempts # <<>>
     /\ \A i \in 1..Len(attempts) : EmptyText(attempts[i])) =>
        /\ outcome = [kind |-> "return", text |-> NoAnswerMsg]
        /\ NoAnswerMsg # QuotaMsg

(* C3 -- when the model call fails with a quota error (text containing     *)
(* "429"), generate_answer does not raise: it returns the fixed quota      *)
(* message; a quota error is never re-raised as "Failed to generate        *)
(* answer: ...".                                                           *)

QuotaFailure(a) ==
    a.response.kind = "raise" /\ Contains(a.response.exc.msg, <<"429">>)

C3_QuotaMessage ==
    (/\ pc = "answered"
     /\ attempts # <<>>
     /\ \A i \in 1..Len(attempts) : QuotaFailure(attempts[i])) =>
        /\ outcome.kind # "raise"
        /\ outcome = [kind |-> "return", text |-> QuotaMsg]

(* C4 -- with zero retrieved chunks generate_answer returns exactly "The   *)
(* answer is not available in the provided books.", builds no prompt and   *)
(* issues no model call, whatever the question and history are.            *)

C4_NoChunksNoModelCall ==
    retrieved_chunks = <<>> =>
        /\ attempts = <<>>
        /\ ~prompt.built
        /\ pc \in {"generate_answer", "answered"}
        /\ pc = "answered" =>
               outcome = [kind |-> "return", text |-> NotAvailableMsg]

\* the call has returned on an empty chunk list, for a long question and a
\* non-empty history
C4_Witness ==
    /\ pc = "answered"
    /\ retrieved_chunks = <<>>
    /\ question_len = 16000
    /\ history_len > 0
    /\ outcome.kind = "return"


----------------------------------------------------------------------------
(* C11 -- for a history holding an assistant turn, the text returned by    *)
(* _build_history starts with the most recent assistant turn; the lines    *)
(* after it are at most four turns taken from the most recent turns in     *)
(* their original order, and none of them is that assistant turn again.    *)
(* A text cut by max_length keeps this shape up to the place of the cut.   *)

\* text.split("\n")
RECURSIVE SplitLines(_)
SplitLines(s) ==
    LET breaks == {i \in 1..Len(s) : s[i] = "\n"}
    IN  IF breaks = {} THEN <<s>>
        ELSE LET k == CHOOSE i \in breaks : \A j \in breaks : i <= j
             IN  <<SubSeq(s, 1, k - 1)>> \o SplitLines(SubSeq(s, k + 1, Len(s)))

IsPrefix(p, s) == Len(p) <= Len(s) /\ SubSeq(s, 1, Len(p)) = p

\* line is the whole text `full`, or what a cut at max_length left of it
ShowsLine(line, full, last) ==
    \/ line = full
    \/ /\ last
       /\ Len(history_text) <= max_length + 1
       /\ \/ IsPrefix(line, full) /\ line # <<>> /\ line[Len(line)] = "."
          \/ /\ line # <<>> /\ line[Len(line)] = "."
             /\ IsPrefix(SubSeq(line, 1, Len(line) - 1), full)

AssistantTurns == {i \in 1..Len(conversation_history) :
                       conversation_history[i].role = "assistant"}
MostRecentAssistant == CHOOSE i \in AssistantTurns : \A j \in AssistantTurns : j <= i
RecentWindow == {i \in 1..Len(conversation_history) :
                     i > Len(conversation_history) - 5}

----------------------------------------------------------------------------
(* C12 -- in process_images an image whose handling raised a quota-class   *)
(* error (numeric code 429, or a message containing "quota") rotates the   *)
(* key pool exactly once, and the loop goes on with the next image; any    *)
(* other error rotates nothing.  So between two images the rotations made  *)
(* are as many as the quota-class errors met, the index has advanced by    *)
(* that number round the pool, and every image so far was taken up once.   *)

QuotaClass(e) == e.code = 429 \/ Contains(e.msg, <<"quota">>)

\* the error, if any, that handling image i of thread t raises
RaisedBy(t, i) ==
    LET im == job[t].image_data[i].img
    IN  IF im.size > max_image_size THEN {}
        ELSE IF ~im.decodable THEN {UnidentifiedImageError}
        ELSE IF im.vision.kind = "raise" THEN {im.vision.error}
        ELSE {}

QuotaClassImages(t) ==
    {i \in 1..(img_i[t] - 1) : \E e \in RaisedBy(t, i) : QuotaClass(e)}

C12_RotateOncePerQuotaClassError ==
    \A t \in Threads :
        tpc[t] \in {"img_next", "done"} =>
            /\ rotations = Cardinality(QuotaClassImages(t))
            /\ current_api_key_index = rotations % Len(api_keys)
            /\ attempted[t] = [i \in 1..(img_i[t] - 1) |-> i]


----------------------------------------------------------------------------
(* C13 -- process_images never aborts on one image: whatever happens to an *)
(* image (too large, not decodable, vision call raising any error, no      *)
(* text extracted) the call is never left by an exception and never waits  *)
(* for a lock it holds; at the return every image of the list has been     *)
(* taken up exactly once in list order, and the result holds one chunk     *)
(* list per image whose extraction returned text, in list order, each      *)
(* chunk of type "image" with the single page of its image.  Text is       *)
(* "non-empty" when something is left of it after strip(), which is the    *)
(* test of line 183: an answer of white space only gives no chunk.         *)

\* the text the vision model returned for image i of thread t, if it was asked
ExtractedText(t, i) ==
    LET im == job[t].image_data[i].img
    IN  IF im.size <= max_image_size /\ im.decodable /\ im.vision.kind = "text"
        THEN {im.vision.text} ELSE {}

NonBlank(s) == Strip(s) # <<>>

NeverAborts(t) ==
    /\ tpc[t] # "aborted"
    /\ tpc[t] \in {"img_lock", "rot_lock"} => _lock # t
    /\ tpc[t] = "done" =>
           attempted[t] = [i \in 1..Len(job[t].image_data) |-> i]

\* the (page, type) tags of the returned chunks
ChunkTags(t) ==
    [k \in 1..Len(image_chunks[t]) |->
        <<image_chunks[t][k].metadata.pages, image_chunks[t][k].metadata.type>>]

C13_ChunksOfNonBlankTexts ==
    \A t \in Threads :
        /\ NeverAborts(t)
        /\ tpc[t] = "done" =>
               LET Has(i) == \E x \in ExtractedText(t, i) : NonBlank(x)
                   with_text == SelectSeq([i \in 1..Len(job[t].image_data) |-> i], Has)
               IN  ChunkTags(t) =
                       [k \in 1..Len(with_text) |->
                           << <<job[t].image_data[with_text[k]].page_num + 1>>, "image">>]

\* an image failed with an error that is no quota error, a later image
\* gave text, and the call has returned
C13_Witness ==
    \E t \in Threads :
        /\ tpc[t] = "done"
        /\ \E i \in 1..Len(job[t].image_data) : \E j \in 1..Len(job[t].image_data) :
              /\ i < j
              /\ \E e \in RaisedBy(t, i) : ~Contains(e.msg, <<"429">>)
              /\ \E x \in ExtractedText(t, j) : NonBlank(x)
        /\ \E i \in 1..Len(job[t].image_data) :
              job[t].image_data[i].img.size > max_image_size
        /\ image_chunks[t] # <<>>


----------------------------------------------------------------------------
(* C14 -- with two threads of one processor running process_images or      *)
(* generate_embeddings in any interleaving: at most one thread at a time   *)
(* is inside a vision call or a key rotation, and whoever is inside holds  *)
(* the lock; a thread asks for the lock of a rotation only when it does    *)
(* not hold the lock itself (the with-block of the failed vision call has  *)
(* been left); and every thread that asks for the lock gets it.            *)

ThreadIds == {"t1", "t2"}

InsideLocked(t) ==
    tpc[t] \in {"img_call", "rot_read", "rot_store", "rot_key", "rot_configure"}
WaitsForLock(t) == tpc[t] \in {"img_lock", "rot_lock"}

C14_MutualExclusionNoDeadlock ==
    /\ [](\A t \in Threads : \A u \in Threads :
              (InsideLocked(t) /\ InsideLocked(u)) => t = u)
    /\ [](\A t \in Threads : InsideLocked(t) => _lock = t)
    /\ [](\A t \in Threads : WaitsForLock(t) => _lock # t)
    /\ \A t \in ThreadIds : WaitsForLock(t) ~> InsideLocked(t)

\* one thread is inside a rotation that its failed vision call set off
\* while the other waits for the lock
C14_Witness ==
    \E t \in Threads : \E u \in Threads :
        /\ job[t].kind = "images" /\ tpc[t] = "rot_store"
        /\ WaitsForLock(u)
        /\ _lock = t

----------------------------------------------------------------------------
(* C18 -- the key pool of a processor: the index is always within the      *)
(* pool; the current key is the pool entry at the index; every rotation    *)
(* advances the index by one round the pool, so after k rotations from     *)
(* index 0, by one thread or by several, the index is k mod n; in a pool   *)
(* of one key the key never changes.                                       *)
(* C18_KeyPoolInvariant asks the key to be the entry at the index in every *)
(* state; C18_KeyPoolInvariantOutsideStore asks it in every state but      *)
(* those where a rotation has stored the index (line 202) and not yet the  *)
(* key (line 203).                                                         *)

IndexInPool ==
    /\ current_api_key_index >= 0
    /\ current_api_key_index < Len(api_keys)
    /\ current_api_key_index = rotations % Len(api_keys)
    /\ Len(api_keys) = 1 => current_api_key = api_keys[1]

C18_KeyPoolInvariant ==
    /\ IndexInPool
    /\ current_api_key = At(api_keys, current_api_key_index)

C18_KeyPoolInvariantOutsideStore ==
    /\ IndexInPool
    /\ (\A t \in Threads : tpc[t] # "rot_key") =>
           current_api_key = At(api_keys, current_api_key_index)

\* both threads have rotated a pool of two keys, one after the other
\* had asked for the lock
C18_Witness ==
    /\ Len(api_keys) = 2
    /\ rotations = 2
    /\ \A t \in Threads : tpc[t] = "done"
    /\ current_api_key = "GEMINI_API_KEY_1"


----------------------------------------------------------------------------
(* C16 -- within one page batch the pages list of every chunk names, in    *)
(* order, pages that contributed text to the buffer and no page that       *)
(* contributed none; the buffer never stays at chunk_size or above after a *)
(* page (it is chunked and emptied as soon as it gets there); and at the   *)
(* end of the batch every page that had text is among the pages of some    *)
(* chunk, chunks that do not share their pages list share no page, and     *)
(* the chunk texts hold all the extracted text.                            *)

Ascending(refs) == \A i \in 1..Len(refs) : \A j \in 1..Len(refs) : i < j => refs[i] < refs[j]

\* the buffer that the pages refs (1-based) make
BufferOf(refs) ==
    ConcatAll([i \in 1..Len(refs) |->
                  PageBlock(refs[i] - 1, PageTextOf(doc_pages[refs[i]]))], 1)

\* the 1-based numbers of the pages of the batch that have text, in order
PagesWithText ==
    LET Has(p) == HasText(doc_pages[p])
    IN  SelectSeq([i \in 1..(end_page - start_page) |-> start_page + i], Has)

Range(s) == {s[i] : i \in 1..Len(s)}

C16_PageRefsAreContributingPages ==
    /\ pc = "batch_loop" =>
           /\ Ascending(batch.page_refs)
           /\ Len(batch.text_buffer) < chunk_size
           /\ \A k \in 1..Len(batch.text_chunks) :
                  /\ batch.text_chunks[k].metadata.pages # <<>>
                  /\ Ascending(batch.text_chunks[k].metadata.pages)
                  /\ Range(batch.text_chunks[k].metadata.pages) \subseteq Range(PagesWithText)
    /\ pc = "batch_done" =>
           LET cs == batch_result.text_chunks
           IN  /\ \A p \in Range(PagesWithText) :
                      \E k \in 1..Len(cs) : p \in Range(cs[k].metadata.pages)
               /\ \A k \in 1..Len(cs) :
                      Range(cs[k].metadata.pages) \subseteq Range(PagesWithText)
               /\ \A k \in 1..Len(cs) : \A l \in 1..Len(cs) :
                      \/ cs[k].metadata.pages = cs[l].metadata.pages
                      \/ Range(cs[k].metadata.pages) \cap Range(cs[l].metadata.pages) = {}
               /\ Unspaced(ConcatAll([k \in 1..Len(cs) |-> cs[k].text], 1))
                      = Unspaced(BufferOf(PagesWithText))


----------------------------------------------------------------------------
(* C15 -- process_pdf submits the batches [s, min(s+b, N)) for s = 0, b,   *)
(* 2b, ...; they cover every page 0..N-1 exactly once; a finished batch    *)
(* holds what _process_pdf_batch gives for its own page range, whatever    *)
(* the other workers did; and the lists returned are the per-batch results *)
(* joined in ascending batch order, whatever the order in which the        *)
(* workers finished and whatever the size of the pool.                     *)

BatchResult(k) ==
    _process_pdf_batch(doc_pages, futures[k].start_page, futures[k].end_page,
                       chunk_size)

C15_BatchesCoverAndJoinInOrder ==
    /\ pc \in {"pdf_collect", "pdf_done"} =>
           /\ Len(futures) = (Len(doc_pages) + page_batch_size - 1) \div page_batch_size
           /\ \A k \in 1..Len(futures) :
                  /\ futures[k].start_page = (k - 1) * page_batch_size
                  /\ futures[k].end_page =
                         Min(futures[k].start_page + page_batch_size, Len(doc_pages))
                  /\ futures[k].state = "done" => futures[k].result = BatchResult(k)
           /\ \A p \in 0..(Len(doc_pages) - 1) :
                  Cardinality({k \in 1..Len(futures) :
                      futures[k].start_page <= p /\ p < futures[k].end_page}) = 1
    /\ pc = "pdf_done" =>
           /\ all_text_chunks =
                  ConcatAll([k \in 1..Len(futures) |-> BatchResult(k).text_chunks], 1)
           /\ all_image_data =
                  ConcatAll([k \in 1..Len(futures) |-> BatchResult(k).image_data], 1)
           /\ all_image_data =
                  ConcatAll([p \in 1..Len(doc_pages) |->
                                FilteredImages(p - 1, doc_pages[p])], 1)

\* a later batch finished before an earlier one, and both gave something
C15_Witness ==
    /\ pc = "pdf_done"
    /\ Len(futures) >= 2
    /\ finish_order[1] # 1
    /\ \A k \in 1..Len(futures) : futures[k].result.text_chunks # <<>>
    /\ all_image_data # <<>>


----------------------------------------------------------------------------
(* C17 -- in a session of uploads and deletions, deleting a book destroys   *)
(* exactly that book's chunks: no query returns a chunk whose source is a   *)
(* book that is not in the processed-books registry, and every book in the  *)
(* registry has chunks that a query for it returns.                         *)

ReturnedSources(returned) ==
    {returned[i].metadata.source : i \in 1..Len(returned)}

QueriesNow ==
    {query_vector_db(vector_store, q, QueryK, s) :
        q \in QuestionEmbeddings, s \in Selections}

DeletedBooksGone ==
    \A returned \in QueriesNow : ReturnedSources(returned) \subseteq processed_books

RegisteredBooksRetrievable ==
    \A b \in processed_books :
        \E q \in QuestionEmbeddings :
            b \in ReturnedSources(query_vector_db(vector_store, q, QueryK, <<b>>))

C17_DeletionDestroysExactlyTheBook ==
    pc = "session" => DeletedBooksGone /\ RegisteredBooksRetrievable

----------------------------------------------------------------------------
(* C19 -- a query made with a non-empty selected_books list returns only    *)
(* chunks whose metadata source is one of the selected books.               *)

C19_QueryReturnsSelectedBooksOnly ==
    (pc = "session" /\ selected_books # <<>>) =>
        ReturnedSources(retrieved_chunks) \subseteq FilterCondition(selected_books)

====
